---- MODULE Spec2Model ----
(***************************************************************************)
(* bx::Thread and bx::TlsData (src/src/thread.cpp).                        *)
(*                                                                         *)
(* One Thread object, the thread that owns it (the caller of init,         *)
(* shutdown and the destructor) and the native threads it creates, on      *)
(* every backend the preprocessor selects and in both build flavours       *)
(* (BX_CHECK active or compiled out).  One TlsData slot used by several    *)
(* threads.                                                                *)
(***************************************************************************)
EXTENDS Integers, Sequences, FiniteSets, TLC

\* ------------------------------------------------------------------ bounds

\* init() calls made on the object in one behaviour.
MaxCycles == 3

\* Calls made outside the contract (init() while running, shutdown() while
\* not running) in one behaviour.
MaxMisuse == 1

\* Threads that use the TlsData slot.
NumTlsThreads == 2

\* ------------------------------------------------------------ build config

\* The preprocessor's platforms.  WINDOWS is the MSVC build; LINUX is glibc
\* >= 2.12 (BSD names threads the same way, by handle); LINUX_PRCTL is glibc
\* < 2.12; OSX stands for OSX and iOS; ANDROID for the POSIX platforms with no
\* naming facility (Android, NaCl, PS4).
WinStyle == {"WINDOWS", "XBOX360", "XBOXONE", "WINRT"}
Posix == {"LINUX", "LINUX_PRCTL", "OSX", "ANDROID"}
Platforms == WinStyle \cup Posix

\* ------------------------------------------------------------------ values

\* Worker functions (ThreadFn) and user-data pointers the caller may pass.
Fns == {"fnSeven", "fnNeg"}
UserDatas == {0, 1}
StackSizes == {0, 65536}

INT32_MIN == -2147483647 - 1

\* What worker fn returns when called with user data ud (an int32_t).
Call(fn, ud) ==
    IF fn = "fnSeven" THEN 7
    ELSE IF ud = 0 THEN -1 ELSE INT32_MIN

Half == 2^16

\* The 32 bits of an int32_t, as two unsigned 16-bit halves <<high, low>>.
\* This is also the DWORD the value converts to.
Bits32(i) == << ((i - (i % Half)) \div Half) % Half, i % Half >>

\* The int32_t that 32 bits <<high, low>> are read as.
Int32(b) ==
    IF b[1] >= Half \div 2 THEN (b[1] - Half) * Half + b[2]
    ELSE b[1] * Half + b[2]

\* The bytes of a pointer beyond the first four: not written by cast.i = ...,
\* so indeterminate.
Pads == {0, Half - 1}

\* INVALID_HANDLE_VALUE, and the DWORD UINT32_MAX.
INVALID_HANDLE_VALUE == -1
UINT32_MAX == <<Half - 1, Half - 1>>

\* GetCurrentThreadId() on native thread i.
GetCurrentThreadId(i) == <<0, i>>

\* TLS values (void*): 0 is NULL.
TlsValues == {0, 42, 43}
TlsThreads == 1..NumTlsThreads

VARIABLES
    platform,     \* the backend compiled in
    debug,        \* BX_CONFIG_DEBUG: BX_CHECK is active
    m_fn, m_userData, m_stackSize, m_exitCode, m_running,
    m_handle,     \* ThreadInternal::m_handle: -1, 0, or i for native thread i
    m_threadId,   \* ThreadInternal::m_threadId (Windows-style backends)
    m_sem,        \* count of the startup semaphore
    pc,           \* where the owning thread is
    caller,       \* who called shutdown(): "client" or "dtor"
    a_name,       \* init()'s _name argument is not NULL
    threads,      \* the native threads created so far, in order
    named,        \* threads setThreadName has named: i, or 0 for its caller
    hist,         \* history: calls made, last call returned, what went wrong,
                  \* the arguments of the latest init() call
    tls,          \* the slot's value on each thread
    obs           \* history of each thread's TLS calls: the last call, the
                  \* last value set, the last value got, and the value got
                  \* before it when two get() calls came in a row

vars == << platform, debug, m_fn, m_userData, m_stackSize, m_exitCode,
           m_running, m_handle, m_threadId, m_sem, pc, caller, a_name,
           threads, named, hist, tls, obs >>

tlsVars == << tls, obs >>
configVars == << platform, debug >>

\* ------------------------------------------------------------ collaborators

\* BX_CHECK(cond, ...): stops the program when the condition is false and the
\* build is a debug build; compiled out otherwise.
CheckStops(cond) == debug /\ ~cond

\* bx::Semaphore: wait() blocks until the count is at least 1 and takes 1,
\* post() adds 1.
SemCanWait(count) == count >= 1
SemWait(count) == count - 1
SemPost(count) == count + 1

\* ----------------------------------------------------------------- helpers

Live(i) == i \in 1..Len(threads) /\ ~threads[i].released

NewThread ==
    [pc |-> "start", fn |-> "NULL", ud |-> 0, ret |-> 0, status |-> <<>>,
     posts |-> 0, calls |-> 0, released |-> FALSE]

NoSnap == [fn |-> "NULL", ud |-> 0, handle |-> 0, n |-> 0, exit |-> 0]
Snap ==
    [fn |-> m_fn, ud |-> m_userData, handle |-> m_handle,
     n |-> Len(threads), exit |-> m_exitCode]

\* ThreadInternal::threadFunc: what the native thread exits with when entry()
\* returned result.  Windows-style: the int32_t converted to DWORD.  POSIX:
\* cast.i = result; return cast.ptr: the pointer's first four bytes are the
\* result and the rest are whatever pad the union held.
threadFunc(result, pad) ==
    IF platform \in WinStyle THEN Bits32(result)
    ELSE Bits32(result) \o <<pad>>

\* The int32_t that shutdown() stores for a thread that exited with status:
\* GetExitCodeThread(handle, (DWORD*)&m_exitCode), or cast.ptr = status;
\* m_exitCode = cast.i.
ExitCodeOf(status) == Int32(<<status[1], status[2]>>)

\* ------------------------------------------------------------------- Init

\* The constructor without its m_exitCode(0) initializer.
InitThreadNoExitCode ==
    /\ platform \in Platforms
    /\ debug \in BOOLEAN
    /\ m_fn = "NULL"
    /\ m_userData = 0
    /\ m_stackSize = 0
    /\ m_exitCode \in {0, -1}
    /\ m_running = FALSE
    /\ m_handle = IF platform \in WinStyle THEN INVALID_HANDLE_VALUE ELSE 0
    /\ m_threadId = UINT32_MAX
    /\ m_sem = 0
    /\ pc = "idle"
    /\ caller = "client"
    /\ a_name = FALSE
    /\ threads = <<>>
    /\ named = {}
    /\ hist = [cycles |-> 0, last |-> "none", createFailed |-> FALSE,
               badJoin |-> FALSE, misuse |-> "none", misuses |-> 0,
               snap |-> NoSnap, arg |-> [fn |-> "NULL", ud |-> 0]]

\* Thread::Thread(), on some platform in some build; the TlsData slot is not
\* in use.
InitThread ==
    /\ platform \in Platforms
    /\ debug \in BOOLEAN
    /\ m_fn = "NULL"
    /\ m_userData = 0
    /\ m_stackSize = 0
    /\ m_exitCode = 0
    /\ m_running = FALSE
    /\ m_handle = IF platform \in WinStyle THEN INVALID_HANDLE_VALUE ELSE 0
    /\ m_threadId = UINT32_MAX
    /\ m_sem = 0
    /\ pc = "idle"
    /\ caller = "client"
    /\ a_name = FALSE
    /\ threads = <<>>
    /\ named = {}
    /\ hist = [cycles |-> 0, last |-> "none", createFailed |-> FALSE,
               badJoin |-> FALSE, misuse |-> "none", misuses |-> 0,
               snap |-> NoSnap, arg |-> [fn |-> "NULL", ud |-> 0]]

TlsIdle ==
    /\ tls = [t \in TlsThreads |-> 0]
    /\ obs = [t \in TlsThreads |->
                [lastOp |-> "none", hasSet |-> FALSE, set |-> 0, got |-> 0,
                 twice |-> FALSE, prev |-> 0]]

Init == InitThread /\ TlsIdle

\* ------------------------------------------------------------ Thread::init

\* init() without its m_running = true.
InitEnterNoFlag(fn, ud, ss, name) ==
    /\ pc = "idle"
    /\ hist.cycles < MaxCycles
    /\ IF CheckStops(~m_running)
       THEN /\ pc' = "aborted"
            /\ UNCHANGED << m_fn, m_userData, m_stackSize, m_running, a_name >>
       ELSE /\ pc' = "init_create"
            /\ m_fn' = fn
            /\ m_userData' = ud
            /\ m_stackSize' = ss
            /\ m_running' = m_running
            /\ a_name' = name
    /\ hist' = [hist EXCEPT !.cycles = @ + 1,
                            !.misuse = IF m_running THEN "init" ELSE @,
                            !.misuses = IF m_running THEN @ + 1 ELSE @,
                            !.snap = IF m_running THEN Snap ELSE @,
                            !.arg = [fn |-> fn, ud |-> ud]]
    /\ UNCHANGED << m_exitCode, m_handle, m_threadId, m_sem, caller, threads,
                    named, configVars, tlsVars >>

\* init(_fn, _userData, _stackSize, _name) up to the creation of the thread:
\* BX_CHECK(!m_running), then the four stores.
InitEnter(fn, ud, ss, name) ==
    /\ pc = "idle"
    /\ hist.cycles < MaxCycles
    /\ IF CheckStops(~m_running)
       THEN /\ pc' = "aborted"
            /\ UNCHANGED << m_fn, m_userData, m_stackSize, m_running, a_name >>
       ELSE /\ pc' = "init_create"
            /\ m_fn' = fn
            /\ m_userData' = ud
            /\ m_stackSize' = ss
            /\ m_running' = TRUE
            /\ a_name' = name
    /\ hist' = [hist EXCEPT !.cycles = @ + 1,
                            !.misuse = IF m_running THEN "init" ELSE @,
                            !.misuses = IF m_running THEN @ + 1 ELSE @,
                            !.snap = IF m_running THEN Snap ELSE @,
                            !.arg = [fn |-> fn, ud |-> ud]]
    /\ UNCHANGED << m_exitCode, m_handle, m_threadId, m_sem, caller, threads,
                    named, configVars, tlsVars >>

\* The client calls init() on an idle object.
CallInit ==
    \E fn \in Fns, ud \in UserDatas, ss \in StackSizes, name \in BOOLEAN :
        /\ ~m_running
        /\ InitEnter(fn, ud, ss, name)

\* The native creation call: ::CreateThread (its result stored in m_handle,
\* NULL on failure, unchecked), the WinRT event and work item (which return
\* nothing that reports failure), or pthread_create followed by
\* BX_CHECK(0 == result).  A failed pthread_create leaves m_handle as it was.
InitCreate ==
    /\ pc = "init_create"
    /\ \E ok \in BOOLEAN :
        IF ok \/ platform = "WINRT"
        THEN /\ threads' = Append(threads, NewThread)
             /\ m_handle' = Len(threads) + 1
             /\ pc' = "init_wait"
             /\ hist' = hist
        ELSE /\ threads' = threads
             /\ m_handle' = IF platform \in WinStyle THEN 0 ELSE m_handle
             /\ pc' = IF platform \in Posix /\ CheckStops(FALSE)
                      THEN "aborted" ELSE "init_wait"
             /\ hist' = [hist EXCEPT !.createFailed = TRUE]
    /\ UNCHANGED << m_fn, m_userData, m_stackSize, m_exitCode, m_running,
                    m_threadId, m_sem, caller, a_name, named, configVars,
                    tlsVars >>

\* init() without its m_sem.wait().
InitNoWait ==
    /\ pc = "init_wait"
    /\ pc' = "init_name"
    /\ UNCHANGED << m_fn, m_userData, m_stackSize, m_exitCode, m_running,
                    m_handle, m_threadId, m_sem, caller, a_name, threads,
                    named, hist, configVars, tlsVars >>

\* m_sem.wait()
InitWait ==
    /\ pc = "init_wait"
    /\ SemCanWait(m_sem)
    /\ m_sem' = SemWait(m_sem)
    /\ pc' = "init_name"
    /\ UNCHANGED << m_fn, m_userData, m_stackSize, m_exitCode, m_running,
                    m_handle, m_threadId, caller, a_name, threads, named,
                    hist, configVars, tlsVars >>

\* Thread::setThreadName, called by thread self (0 is the owning thread): the
\* thread it names.
NameTarget(self) ==
    CASE platform \in {"OSX", "LINUX_PRCTL"} -> {self}
      [] platform = "LINUX" -> {m_handle}
      [] platform = "WINDOWS" ->
            IF m_threadId = UINT32_MAX THEN {self}
            ELSE {i \in 1..Len(threads) : GetCurrentThreadId(i) = m_threadId}
      [] OTHER -> {}

\* An init() that clears the exit code before it returns.
InitNameResetExit ==
    /\ pc = "init_name"
    /\ named' = IF a_name THEN named \cup NameTarget(0) ELSE named
    /\ pc' = "idle"
    /\ a_name' = FALSE
    /\ m_exitCode' = 0
    /\ hist' = [hist EXCEPT !.last = "init"]
    /\ UNCHANGED << m_fn, m_userData, m_stackSize, m_running,
                    m_handle, m_threadId, m_sem, caller, threads,
                    configVars, tlsVars >>

\* if (NULL != _name) setThreadName(_name); and init() returns.
InitName ==
    /\ pc = "init_name"
    /\ named' = IF a_name THEN named \cup NameTarget(0) ELSE named
    /\ pc' = "idle"
    /\ a_name' = FALSE
    /\ hist' = [hist EXCEPT !.last = "init"]
    /\ UNCHANGED << m_fn, m_userData, m_stackSize, m_exitCode, m_running,
                    m_handle, m_threadId, m_sem, caller, threads,
                    configVars, tlsVars >>

\* -------------------------------------------------------- Thread::shutdown

\* A shutdown() that returns without waiting for the thread.
ShutdownEnterNoJoin(c) ==
    /\ pc = "idle"
    /\ pc' = IF c = "dtor" THEN "destroyed" ELSE "idle"
    /\ caller' = c
    /\ m_handle' = IF platform \in WinStyle THEN INVALID_HANDLE_VALUE ELSE 0
    /\ m_running' = FALSE
    /\ hist' = [hist EXCEPT !.last = "shutdown"]
    /\ UNCHANGED << m_fn, m_userData, m_stackSize, m_exitCode, m_threadId,
                    m_sem, a_name, threads, named, configVars, tlsVars >>

\* shutdown() up to the wait: BX_CHECK(m_running).  c is who calls it.
ShutdownEnter(c) ==
    /\ pc = "idle"
    /\ pc' = IF CheckStops(m_running) THEN "aborted" ELSE "sd_wait"
    /\ caller' = c
    /\ hist' = [hist EXCEPT !.misuse = IF m_running THEN @ ELSE "shutdown",
                            !.misuses = IF m_running THEN @ ELSE @ + 1,
                            !.snap = IF m_running THEN @ ELSE Snap]
    /\ UNCHANGED << m_fn, m_userData, m_stackSize, m_exitCode, m_running,
                    m_handle, m_threadId, m_sem, a_name, threads, named,
                    configVars, tlsVars >>

\* The client calls shutdown() on a running object.
CallShutdown ==
    /\ m_running
    /\ ShutdownEnter("client")

\* Values an uninitialized int32_t may hold.
Indeterminate == {m_exitCode, 0, 7, -1}

\* The exit code shutdown() leaves after waiting for a thread that exited with
\* status: stored from the native exit status by the Windows/Xbox360 and POSIX
\* branches, untouched by the WinRT/XboxOne branch.
JoinedExitCode(status) ==
    IF platform \in {"WINRT", "XBOXONE"} THEN m_exitCode
    ELSE ExitCodeOf(status)

\* The rest of shutdown(): the native wait or join on m_handle, the exit code,
\* the release of the handle, m_running = false.  A wait on a handle that
\* names no thread of this object fails at once or never returns on the
\* Windows-style backends; pthread_join of such a handle is undefined: it
\* stops the program, or fails and leaves cast.ptr as it was.
ShutdownJoin ==
    /\ pc = "sd_wait"
    /\ IF Live(m_handle)
       THEN /\ threads[m_handle].pc = "terminated"
            /\ m_exitCode' = JoinedExitCode(threads[m_handle].status)
            /\ threads' = [threads EXCEPT ![m_handle].released = TRUE,
                                          ![m_handle].status = <<>>,
                                          ![m_handle].fn = "NULL",
                                          ![m_handle].ud = 0]
            /\ pc' = IF caller = "dtor" THEN "destroyed" ELSE "idle"
            /\ hist' = [hist EXCEPT !.last = "shutdown"]
       ELSE /\ threads' = threads
            /\ \E back \in BOOLEAN :
                 pc' = IF back
                       THEN (IF caller = "dtor" THEN "destroyed" ELSE "idle")
                       ELSE (IF platform \in WinStyle THEN "hung" ELSE "crashed")
            /\ \E code \in Indeterminate :
                 m_exitCode' = IF platform \in Posix /\ pc' \in {"idle", "destroyed"}
                               THEN code ELSE m_exitCode
            /\ hist' = [hist EXCEPT !.badJoin = TRUE,
                                    !.last = IF pc' \in {"idle", "destroyed"}
                                             THEN "shutdown" ELSE @]
    /\ IF pc' \in {"idle", "destroyed"}
       THEN /\ m_handle' = IF platform \in WinStyle
                           THEN INVALID_HANDLE_VALUE ELSE 0
            /\ m_running' = FALSE
       ELSE UNCHANGED << m_handle, m_running >>
    /\ caller' = IF pc' = "idle" THEN "client" ELSE caller
    /\ UNCHANGED << m_fn, m_userData, m_stackSize, m_threadId, m_sem, a_name,
                    named, configVars, tlsVars >>

\* ---------------------------------------------------------- Thread::~Thread

\* A destructor that does not shut down.
DestroyNoShutdown ==
    /\ pc = "idle"
    /\ pc' = "destroyed"
    /\ UNCHANGED << m_fn, m_userData, m_stackSize, m_exitCode, m_running,
                    m_handle, m_threadId, m_sem, caller, a_name, threads,
                    named, hist, configVars, tlsVars >>

\* if (m_running) shutdown();
Destroy ==
    /\ pc = "idle"
    /\ IF m_running
       THEN ShutdownEnter("dtor")
       ELSE /\ pc' = "destroyed"
            /\ UNCHANGED << m_fn, m_userData, m_stackSize, m_exitCode,
                            m_running, m_handle, m_threadId, m_sem, caller,
                            a_name, threads, named, hist, configVars, tlsVars >>

\* ------------------------------------------------------ the native thread

Stopped == pc \in {"aborted", "crashed"}

\* Thread::entry, first statement, on native thread i:
\* ti->m_threadId = ::GetCurrentThreadId() (BX_PLATFORM_WINDOWS only).
EntryCapture ==
    \E i \in 1..Len(threads) :
    /\ ~Stopped
    /\ threads[i].pc = "start"
    /\ m_threadId' = IF platform = "WINDOWS" THEN GetCurrentThreadId(i)
                     ELSE m_threadId
    /\ threads' = [threads EXCEPT ![i].pc = "post"]
    /\ UNCHANGED << m_fn, m_userData, m_stackSize, m_exitCode, m_running,
                    m_handle, m_sem, pc, caller, a_name, named, hist,
                    configVars, tlsVars >>

\* An entry() that posts twice.
EntryPostTwice ==
    \E i \in 1..Len(threads) :
    /\ ~Stopped
    /\ threads[i].pc = "post"
    /\ m_sem' = SemPost(SemPost(m_sem))
    /\ threads' = [threads EXCEPT ![i].pc = "call", ![i].posts = @ + 2]
    /\ UNCHANGED << m_fn, m_userData, m_stackSize, m_exitCode, m_running,
                    m_handle, m_threadId, pc, caller, a_name, named, hist,
                    configVars, tlsVars >>

\* An entry() that does not post.
EntryNoPost ==
    \E i \in 1..Len(threads) :
    /\ ~Stopped
    /\ threads[i].pc = "post"
    /\ m_sem' = m_sem
    /\ threads' = [threads EXCEPT ![i].pc = "call"]
    /\ UNCHANGED << m_fn, m_userData, m_stackSize, m_exitCode, m_running,
                    m_handle, m_threadId, pc, caller, a_name, named, hist,
                    configVars, tlsVars >>

\* m_sem.post()
EntryPost ==
    \E i \in 1..Len(threads) :
    /\ ~Stopped
    /\ threads[i].pc = "post"
    /\ m_sem' = SemPost(m_sem)
    /\ threads' = [threads EXCEPT ![i].pc = "call", ![i].posts = @ + 1]
    /\ UNCHANGED << m_fn, m_userData, m_stackSize, m_exitCode, m_running,
                    m_handle, m_threadId, pc, caller, a_name, named, hist,
                    configVars, tlsVars >>

\* An entry() that calls m_fn(NULL).
EntryCallNoData ==
    \E i \in 1..Len(threads) :
    /\ ~Stopped
    /\ threads[i].pc = "call"
    /\ threads' = [threads EXCEPT ![i].pc = "worker", ![i].fn = m_fn,
                                  ![i].ud = 0, ![i].calls = @ + 1]
    /\ UNCHANGED << m_fn, m_userData, m_stackSize, m_exitCode, m_running,
                    m_handle, m_threadId, m_sem, pc, caller, a_name, named,
                    hist, configVars, tlsVars >>

\* m_fn(m_userData): the worker is entered.
EntryCall ==
    \E i \in 1..Len(threads) :
    /\ ~Stopped
    /\ threads[i].pc = "call"
    /\ threads' = [threads EXCEPT ![i].pc = "worker", ![i].fn = m_fn,
                                  ![i].ud = m_userData, ![i].calls = @ + 1]
    /\ UNCHANGED << m_fn, m_userData, m_stackSize, m_exitCode, m_running,
                    m_handle, m_threadId, m_sem, pc, caller, a_name, named,
                    hist, configVars, tlsVars >>

\* The worker returns; entry() returns its value and threadFunc turns it into
\* the native exit status.  On WinRT the work item stores
\* m_exitCode = ti->threadFunc(this) and has yet to set the event; elsewhere
\* the native thread has terminated.
WorkerReturn ==
    \E i \in 1..Len(threads) :
    /\ ~Stopped
    /\ threads[i].pc = "worker"
    /\ \E pad \in Pads :
        LET r == Call(threads[i].fn, threads[i].ud)
            st == threadFunc(r, pad)
        IN /\ threads' = [threads EXCEPT
                 ![i].pc = IF platform = "WINRT" THEN "setevent" ELSE "terminated",
                 ![i].ret = r,
                 ![i].status = st]
           /\ m_exitCode' = IF platform = "WINRT" THEN ExitCodeOf(st)
                            ELSE m_exitCode
    /\ UNCHANGED << m_fn, m_userData, m_stackSize, m_running, m_handle,
                    m_threadId, m_sem, pc, caller, a_name, named, hist,
                    configVars, tlsVars >>

\* SetEvent(ti->m_handle) at the end of the WinRT work item.
SetEvent ==
    \E i \in 1..Len(threads) :
    /\ ~Stopped
    /\ threads[i].pc = "setevent"
    /\ threads' = [threads EXCEPT ![i].pc = "terminated"]
    /\ UNCHANGED << m_fn, m_userData, m_stackSize, m_exitCode, m_running,
                    m_handle, m_threadId, m_sem, pc, caller, a_name, named,
                    hist, configVars, tlsVars >>

\* ------------------------------------------------------------------- Spec

\* The owner keeps to the contract: init() when not running, shutdown() when
\* running.
Next ==
    \/ CallInit
    \/ InitCreate
    \/ InitWait
    \/ InitName
    \/ CallShutdown
    \/ ShutdownJoin
    \/ Destroy
    \/ EntryCapture
    \/ EntryPost
    \/ EntryCall
    \/ WorkerReturn
    \/ SetEvent

Spec == Init /\ [][Next]_vars

\* The operating system schedules fairly: a step of init(), of shutdown() or
\* of entry() that can be taken is taken.  Nothing makes the client call, and
\* nothing makes the worker return.
Fairness ==
    /\ WF_vars(InitCreate)
    /\ WF_vars(InitWait)
    /\ WF_vars(InitName)
    /\ WF_vars(ShutdownJoin)
    /\ WF_vars(EntryCapture)
    /\ WF_vars(EntryPost)
    /\ WF_vars(EntryCall)
    /\ WF_vars(SetEvent)

SpecFair == Init /\ [][Next]_vars /\ Fairness

\* ----------------------------------------------------- outside the contract

\* The client calls init() although the object is running.
InitWhileRunning ==
    \E fn \in Fns, ud \in UserDatas, ss \in StackSizes, name \in BOOLEAN :
        /\ m_running
        /\ hist.misuses < MaxMisuse
        /\ InitEnter(fn, ud, ss, name)

\* The client calls shutdown() although the object is not running.
ShutdownWhileIdle ==
    /\ ~m_running
    /\ hist.misuses < MaxMisuse
    /\ ShutdownEnter("client")

NextMisuse ==
    \/ Next
    \/ InitWhileRunning
    \/ ShutdownWhileIdle

SpecMisuse == Init /\ [][NextMisuse]_vars

\* ---------------------------------------------------------------- TlsData

\* TlsData has get() and set() on every platform but XboxOne and WinRT.
TlsPlatforms == Platforms \ {"XBOXONE", "WINRT"}

\* A set() that stores into one variable shared by all threads.
TlsSetShared(store, t, v) == [u \in DOMAIN store |-> v]

\* A set() that stores only into an empty slot.
TlsSetOnce(store, t, v) ==
    IF store[t] = 0 THEN [store EXCEPT ![t] = v] ELSE store

\* TlsData::set(_ptr) on thread t: TlsSetValue(ti->m_id, _ptr) or
\* pthread_setspecific(ti->m_id, _ptr), which store into the calling thread's
\* value of the key.  store is the key's value on every thread.
TlsSetValue(store, t, v) == [store EXCEPT ![t] = v]

\* TlsData::get() on thread t: TlsGetValue(ti->m_id) or
\* pthread_getspecific(ti->m_id): the calling thread's value of the key.
TlsGetValue(store, t) == store[t]

TlsSet ==
    \E t \in TlsThreads, v \in TlsValues :
        /\ tls' = TlsSetValue(tls, t, v)
        /\ obs' = [obs EXCEPT ![t] = [lastOp |-> "set", hasSet |-> TRUE,
                                      set |-> v, got |-> 0, twice |-> FALSE,
                                      prev |-> 0]]
        /\ UNCHANGED << platform, debug, m_fn, m_userData, m_stackSize,
                        m_exitCode, m_running, m_handle, m_threadId, m_sem,
                        pc, caller, a_name, threads, named, hist >>

TlsGet ==
    \E t \in TlsThreads :
        /\ obs' = [obs EXCEPT ![t].lastOp = "get",
                              ![t].got = TlsGetValue(tls, t),
                              ![t].twice = (obs[t].lastOp = "get"),
                              ![t].prev = obs[t].got]
        /\ UNCHANGED << tls, platform, debug, m_fn, m_userData, m_stackSize,
                        m_exitCode, m_running, m_handle, m_threadId, m_sem,
                        pc, caller, a_name, threads, named, hist >>

InitTls == InitThread /\ platform \in TlsPlatforms /\ TlsIdle

NextTls ==
    \/ TlsSet
    \/ TlsGet

SpecTls == InitTls /\ [][NextTls]_vars

\* ------------------------------------------------------------- properties

\* No call is in progress and the last call to return was op.
Returned(op) == pc = "idle" /\ hist.last = op

\* The native thread created by the latest init() call.
Spawned == Len(threads)

\* C1: on an idle Thread, when init(f, d) returns isRunning() is true, and
\* when the following shutdown() returns isRunning() is false and
\* getExitCode() is the value f returned on the spawned thread.
C1_StartStopExitCode ==
    /\ Returned("init") => m_running
    /\ Returned("shutdown") =>
          /\ ~m_running
          /\ m_exitCode = Call(m_fn, m_userData)
          /\ m_exitCode = threads[Spawned].ret

\* init() has passed its wait: it is about to read the identifier for naming,
\* or it has returned.
PastHandshake == pc = "init_name" \/ Returned("init")

\* C2 as stated: once init() is past its wait, the identifier field of the
\* backend handle holds the identifier of the thread this init() spawned.
C2_IdentifierCaptured ==
    (platform \in WinStyle /\ PastHandshake) =>
        m_threadId = GetCurrentThreadId(Spawned)

\* C2, amended: on every backend the spawned thread has posted before it
\* enters the worker and init() gets past its wait only after the thread it
\* spawned has posted; on BX_PLATFORM_WINDOWS, the one backend whose entry()
\* captures an identifier, the identifier field then holds the identifier of
\* that thread.
C2_Handshake ==
    /\ \A i \in 1..Len(threads) :
          threads[i].calls > 0 => threads[i].posts = 1
    /\ PastHandshake =>
          /\ Spawned = hist.cycles
          /\ threads[Spawned].posts = 1
          /\ platform = "WINDOWS" => m_threadId = GetCurrentThreadId(Spawned)

\* init() has returned on WINDOWS in a second cycle, with the identifier of
\* the second thread captured.
C2_Witness ==
    /\ platform = "WINDOWS"
    /\ Returned("init")
    /\ Spawned = 2
    /\ m_threadId = GetCurrentThreadId(2)

\* C3: when the destructor of a running Thread has returned, every native
\* thread the object created has terminated and has been joined (its handle
\* released).
C3_DestructorJoins ==
    pc = "destroyed" =>
        \A i \in 1..Len(threads) :
            threads[i].pc = "terminated" /\ threads[i].released

\* The destructor found the object running, shut it down and returned.
C3_Witness ==
    /\ pc = "destroyed"
    /\ caller = "dtor"
    /\ threads[Spawned].released

\* C4: init() on a running Thread is rejected: no second native thread is
\* created and the stored worker, user data and backend handle stay as they
\* were.
C4_InitWhileRunningRejected ==
    hist.misuse = "init" =>
        /\ Len(threads) = hist.snap.n
        /\ m_fn = hist.snap.fn
        /\ m_userData = hist.snap.ud
        /\ m_handle = hist.snap.handle

\* C5: after each of any number of serial init()/shutdown() cycles, a fresh
\* native thread was spawned for the cycle, it has completed, and
\* getExitCode() is the value the worker of that cycle returned.
C5_RestartCycles ==
    Returned("shutdown") =>
        /\ Len(threads) = hist.cycles
        /\ \A i \in 1..Len(threads) : threads[i].released
        /\ m_exitCode = threads[hist.cycles].ret

\* C6: a call by one thread never changes what get() returns on another
\* thread, and a thread that never called set() gets the null value.
C6_TlsIsolation ==
    /\ [][\A a \in TlsThreads :
            obs'[a] # obs[a] =>
                \A b \in TlsThreads \ {a} :
                    TlsGetValue(tls', b) = TlsGetValue(tls, b)]_vars
    /\ [](\A t \in TlsThreads :
            ~obs[t].hasSet =>
                /\ TlsGetValue(tls, t) = 0
                /\ obs[t].lastOp = "get" => obs[t].got = 0)

\* Thread 1 stored 42 and read it back; thread 2, which never stored, read
\* null after that.
C6_Witness ==
    /\ obs[1].set = 42 /\ obs[1].got = 42
    /\ ~obs[2].hasSet /\ obs[2].lastOp = "get" /\ obs[2].got = 0

C8_NotRunningAfterFailedCreate ==
    (hist.createFailed /\ pc # "init_create") =>
        /\ ~m_running
        /\ ~hist.badJoin

\* C9: shutdown() on a Thread that is not running performs no native join or
\* wait on its invalid handle and leaves the exit code as it was.
C9_ShutdownWhileIdleRejected ==
    /\ ~hist.badJoin
    /\ hist.misuse = "shutdown" => m_exitCode = hist.snap.exit

\* C10: on a freshly constructed Thread, getExitCode() is 0 and isRunning()
\* is false.
C10_FreshDefaults ==
    hist.cycles = 0 => (m_exitCode = 0 /\ ~m_running)

\* The constructed object, before any call.
C10_Witness ==
    /\ hist.cycles = 0
    /\ pc = "idle"
    /\ m_fn = "NULL"

\* C11: setThreadName names the thread the handle stands for, never the
\* thread that calls it: where the facility can only name the calling thread
\* (OSX/iOS pthread_setname_np(name), Linux prctl) the owning thread does not
\* run it from init().
C11_NamesSpawnedThread ==
    /\ 0 \notin named
    /\ named \subseteq 1..Len(threads)

\* What the POSIX backend reports for a worker fn called with ud: the first
\* four bytes of the pointer threadFunc returned, whatever the rest holds.
PosixExitCode(fn, ud, pad) == ExitCodeOf(Bits32(Call(fn, ud)) \o <<pad>>)

\* C12: on every backend, init(f, d); shutdown(); getExitCode() yields what
\* the POSIX backend yields for the same f and d.
C12_BackendsAgree ==
    Returned("shutdown") =>
        \A pad \in Pads : m_exitCode = PosixExitCode(m_fn, m_userData, pad)

\* C15: when the native creation call reported failure, init() does not go on
\* to wait on the startup semaphore.
C15_NoWaitAfterFailedCreate ==
    hist.createFailed => pc # "init_wait"

\* C16: whenever the running flag is false, the native thread reference is
\* invalid and, on the Windows-style backends, the thread identifier is
\* UINT32_MAX.
C16_IdleHandleInvalid ==
    ~m_running =>
        /\ m_handle = IF platform \in WinStyle THEN INVALID_HANDLE_VALUE ELSE 0
        /\ platform \in WinStyle => m_threadId = UINT32_MAX

\* The native threads created and not yet joined.
Unjoined == {i \in 1..Len(threads) : ~threads[i].released}

\* C17: under correct use at most one native thread of the object is created
\* and not yet joined, and while no init() or shutdown() is in progress there
\* is exactly one if the running flag is true and none if it is false.
C17_OneThreadWhileRunning ==
    /\ Cardinality(Unjoined) <= 1
    /\ pc = "idle" => Cardinality(Unjoined) = IF m_running THEN 1 ELSE 0

\* The object is running its second thread; the first has been joined.
C17_Witness ==
    /\ Returned("init")
    /\ m_running
    /\ Unjoined = {2}

\* C18: each init() creates at most one native thread; on it entry() posts the
\* semaphore once and then invokes the worker once, with the worker and user
\* data passed to that init(); a thread that has been joined posted once and
\* called once.
C18_EntryOnce ==
    /\ Len(threads) <= hist.cycles
    /\ \A i \in 1..Len(threads) :
          /\ threads[i].posts <= 1
          /\ threads[i].calls <= 1
          /\ threads[i].calls = 1 => threads[i].posts = 1
          /\ threads[i].pc \in {"worker", "setevent", "terminated"} =>
                threads[i].calls = 1
          /\ (threads[i].calls = 1 /\ ~threads[i].released) =>
                /\ i = hist.cycles
                /\ threads[i].fn = hist.arg.fn
                /\ threads[i].ud = hist.arg.ud
          /\ threads[i].released =>
                (threads[i].posts = 1 /\ threads[i].calls = 1)

\* The second thread runs the worker with the non-null user data of the
\* second init(); the first thread was joined.
C18_Witness ==
    /\ Len(threads) = 2
    /\ threads[1].released
    /\ threads[2].pc = "worker"
    /\ hist.arg.ud = 1
    /\ threads[2].ud = 1

\* C19: under correct use the count of m_sem is 0 or 1 and is 0 unless init()
\* is between creating the thread and returning from its wait; a count of 1
\* seen by that wait is the post of the thread this init() created.
C19_SemaphoreCount ==
    /\ m_sem \in {0, 1}
    /\ pc \notin {"init_create", "init_wait"} => m_sem = 0
    /\ m_sem = 1 =>
          /\ pc = "init_wait"
          /\ Spawned = hist.cycles
          /\ threads[Spawned].posts = 1

\* The wait of the second init() is about to be released by the post of the
\* second thread.
C19_Witness ==
    /\ pc = "init_wait"
    /\ m_sem = 1
    /\ hist.cycles = 2
    /\ threads[2].posts = 1

\* C13: when the native creation succeeded and scheduling is fair, init()
\* returns, whether or not the worker ever returns.
C13_InitReturns ==
    (pc = "init_wait" /\ Spawned = hist.cycles) ~> Returned("init")

\* init() has returned and the worker it started is still running.
C13_Witness ==
    /\ Returned("init")
    /\ threads[Spawned].pc = "worker"

\* The worker of the current cycle has returned.
WorkerReturned == threads[Spawned].pc \in {"setevent", "terminated"}

\* C14: shutdown() returns only after the worker of the current cycle has
\* returned and the thread has terminated; while the thread has not
\* terminated shutdown() cannot proceed; and under fair scheduling it returns
\* once the worker has returned.
C14_JoinSemantics ==
    /\ []((pc \in {"idle", "destroyed"} /\ hist.last = "shutdown") =>
            (threads[Spawned].pc = "terminated" /\ threads[Spawned].calls = 1))
    /\ []((pc = "sd_wait" /\ threads[Spawned].pc # "terminated") =>
            ~ENABLED ShutdownJoin)
    /\ ((pc = "sd_wait" /\ WorkerReturned) ~> (pc \in {"idle", "destroyed"}))

\* shutdown() is blocked in its wait while the worker is still running.
C14_Witness ==
    /\ pc = "sd_wait"
    /\ threads[Spawned].pc = "worker"
    /\ ~ENABLED ShutdownJoin

\* The step in which shutdown() returns.
ShutdownReturns == pc = "sd_wait" /\ pc' \in {"idle", "destroyed"}

\* The step in which the worker returns inside the WinRT work item.
WorkItemReturns ==
    /\ platform = "WINRT"
    /\ pc' = pc
    /\ \E i \in 1..Len(threads) :
          /\ threads[i].pc = "worker"
          /\ threads'[i].pc = "setevent"

\* C20 as stated: the exit code field changes only in the step in which
\* shutdown() returns, on every backend.
C20_OnlyShutdownWrites ==
    [][m_exitCode' # m_exitCode => ShutdownReturns]_vars

\* C20 as amended: the exit code field changes only in the step in which
\* shutdown() returns on a backend that reads the native exit status, or, on
\* WinRT, in the step in which the worker returns on the spawned thread; no
\* step of init() and no other step of the spawned thread changes it.
C20_ExitCodeFrame ==
    [][m_exitCode' # m_exitCode =>
          \/ ShutdownReturns /\ platform \notin {"WINRT", "XBOXONE"}
          \/ WorkItemReturns]_vars

\* On WinRT, between init() returning and shutdown() being called, the exit
\* code already holds the worker's result.
C20_Witness ==
    /\ platform = "WINRT"
    /\ Returned("init")
    /\ m_running
    /\ hist.cycles = 1
    /\ threads[Spawned].pc = "terminated"
    /\ m_exitCode = threads[Spawned].ret
    /\ m_exitCode # 0

====
